---- MODULE Spec2Model ----
(***************************************************************************)
(* SQL generation of the PostgreSQL and MariaDB query generators, and the  *)
(* version fetch of the query interface.                                   *)
(*                                                                         *)
(* SQL text is a sequence of chunks (strings).  A chunk is a piece of text *)
(* that is never split: a literal fragment of the source, or one unit of a *)
(* user-supplied string.  In user-supplied strings the quote characters    *)
(* are chunks of their own, so that escaping and quoting act on them as    *)
(* the code does.                                                          *)
(* The grave accent is written <backtick>.                                 *)
(***************************************************************************)
EXTENDS Integers, Sequences, FiniteSets, TLC

VARIABLES call, result, pc, executed

vars == <<call, result, pc, executed>>

----------------------------------------------------------------------------
(* Bounds of the model *)

MaxPathLen == 2
MaxColumns == 2
MaxRows == 2
MaxFields == 2
MaxExecuted == 3

----------------------------------------------------------------------------
(* Text helpers *)

RECURSIVE Concat(_)
Concat(ss) == IF ss = <<>> THEN <<>> ELSE Head(ss) \o Concat(Tail(ss))

\* Array.prototype.join
RECURSIVE Join(_, _)
Join(ss, sep) ==
  IF ss = <<>> THEN <<>>
  ELSE IF Len(ss) = 1 THEN ss[1]
  ELSE ss[1] \o sep \o Join(Tail(ss), sep)

RECURSIVE Replace(_, _, _)
Replace(s, ch, by) ==
  IF s = <<>> THEN <<>>
  ELSE (IF Head(s) = ch THEN by ELSE <<Head(s)>>) \o Replace(Tail(s), ch, by)

\* positions at which sub occurs in s
Occurrences(s, sub) ==
  { i \in 1..(Len(s) - Len(sub) + 1) : SubSeq(s, i, i + Len(sub) - 1) = sub }

Count(s, sub) == Cardinality(Occurrences(s, sub))

Min(S) == CHOOSE x \in S : \A y \in S : x <= y

\* String(number)
Digits == <<"0", "1", "2", "3", "4", "5", "6", "7", "8", "9">>

RECURSIVE String(_)
String(n) ==
  IF n < 10 THEN <<Digits[n + 1]>>
  ELSE String(n \div 10) \o <<Digits[(n % 10) + 1]>>

----------------------------------------------------------------------------
(* Values handed to escape(): a string, a number or an array of values *)

Str(s) == [type |-> "string", s |-> s, n |-> 0, a |-> <<>>]
Num(n) == [type |-> "number", s |-> <<>>, n |-> n, a |-> <<>>]
Arr(a) == [type |-> "array", s |-> <<>>, n |-> 0, a |-> a]

----------------------------------------------------------------------------
(* Dialects and their collaborators *)

Postgres == "postgres"
MariaDb == "mariadb"

DefaultSchema(dialect) == IF dialect = Postgres THEN <<"public">> ELSE <<"maindb">>

\* the MariaDB identifier tick (a grave accent), written out since a TLA+ string cannot hold one
Backtick == "<backtick>"

TickOf(dialect) == IF dialect = Postgres THEN "\"" ELSE Backtick

\* escape of a string literal: wrapped in single quotes, inner quotes doubled
escapeString(s) == <<"'">> \o Replace(s, "'", <<"'", "'">>) \o <<"'">>

RECURSIVE escape(_)
escape(v) ==
  CASE v.type = "string" -> escapeString(v.s)
    [] v.type = "number" -> String(v.n)
    [] v.type = "array" ->
         <<"ARRAY[">> \o Join([i \in 1..Len(v.a) |-> escape(v.a[i])], <<",">>) \o <<"]">>

\* quoteIdentifier: ticks inside the identifier are removed, then it is wrapped
quoteIdentifier(dialect, id) ==
  <<TickOf(dialect)>> \o Replace(id, TickOf(dialect), <<>>) \o <<TickOf(dialect)>>

\* A table-or-model reference: a bare table name, or a name with its schema
TableName(name) == [tableName |-> name, hasSchema |-> FALSE, schema |-> <<>>]
TableWithSchema(name, schema) == [tableName |-> name, hasSchema |-> TRUE, schema |-> schema]

extractTableDetails(dialect, ref) ==
  [tableName |-> ref.tableName,
   hasSchema |-> TRUE,
   schema |-> IF ref.hasSchema THEN ref.schema ELSE DefaultSchema(dialect)]

quoteTable(dialect, ref) ==
  LET table == extractTableDetails(dialect, ref)
  IN quoteIdentifier(dialect, table.schema) \o <<".">> \o quoteIdentifier(dialect, table.tableName)

\* joinSQLFragments: empty fragments are skipped, the others joined by one space
joinSQLFragments(fragments) ==
  Join(SelectSeq(fragments, LAMBDA f : f # <<>>), <<" ">>)

generateIndexName(table, fields) ==
  table.tableName \o <<"_">> \o Join(fields, <<"_">>)

generateEnumName(tableName, columnName, replacement) ==
  (IF replacement THEN <<"tmp_">> ELSE <<>>) \o <<"enum_">> \o tableName \o <<"_">> \o columnName

generateSequenceName(tableName, columnName) ==
  tableName \o <<"_">> \o columnName \o <<"_seq">>

----------------------------------------------------------------------------
(* Options objects: a set of keys with their values, or no object at all *)

NoOptions == [present |-> FALSE, opts |-> <<>>]
Options(o) == [present |-> TRUE, opts |-> o]

Keys(options) == IF options.present THEN DOMAIN options.opts ELSE {}

\* options?.key is truthy, for a boolean option
IsTrue(options, key) == key \in Keys(options) /\ options.opts[key] = TRUE

\* options?.key is truthy, for a string option
IsNonEmpty(options, key) == key \in Keys(options) /\ options.opts[key] # <<>>

----------------------------------------------------------------------------
(* Outcome of a call: the SQL returned or the error thrown, with the        *)
(* collaborator calls made on the way                                       *)

Returns(sql, steps) ==
  [kind |-> "sql", sql |-> sql, error |-> "", message |-> "", steps |-> steps]

Throws(error, message, steps) ==
  [kind |-> "throw", sql |-> <<>>, error |-> error, message |-> message, steps |-> steps]

NoResult == [kind |-> "none", sql |-> <<>>, error |-> "", message |-> "", steps |-> <<>>]

REMOVE_INDEX_QUERY_SUPPORTABLE_OPTIONS == {"ifExists", "cascade", "concurrently"}
REMOVE_INDEX_QUERY_SUPPORTED_OPTIONS == {"ifExists"}

\* the keys rejectInvalidOptions reports for the received options
InvalidOptions(supportable, supported, options) ==
  { k \in Keys(options) : k \notin supported }

rejectInvalidOptions(supportable, supported, options) ==
  InvalidOptions(supportable, supported, options) # {}

----------------------------------------------------------------------------
(* JSON paths: a sequence of segments, each a number (array index) or a    *)
(* string (object key), as values Num(n) and Str(s)                        *)

\* String(value) of a path segment
ToStringValue(segment) == IF segment.type = "number" THEN String(segment.n) ELSE segment.s

RECURSIVE buildJsonPath(_)
buildJsonPath(path) ==
  IF path = <<>> THEN <<"$">>
  ELSE LET last == path[Len(path)]
       IN buildJsonPath(SubSeq(path, 1, Len(path) - 1))
            \o (IF last.type = "number"
                  THEN <<"[">> \o String(last.n) \o <<"]">>
                  ELSE <<".", "\"">> \o Replace(last.s, "\"", <<"\\", "\"">>) \o <<"\"">>)

----------------------------------------------------------------------------
(* Data types: ENUM with its values, ARRAY of an element type, or another  *)
(* scalar type.  name is what toSql() gives for an enum.                   *)

NoType == [kind |-> "none", of |-> "", values |-> <<>>, name |-> <<>>]
EnumType(name, values) == [kind |-> "ENUM", of |-> "", values |-> values, name |-> name]
ArrayOfEnumType(name, values) == [kind |-> "ARRAY", of |-> "ENUM", values |-> values, name |-> name]
ArrayOfIntegerType == [kind |-> "ARRAY", of |-> "INTEGER", values |-> <<>>, name |-> <<>>]
IntegerType == [kind |-> "INTEGER", of |-> "", values |-> <<>>, name |-> <<>>]

\* dataType instanceof ENUM
IsEnum(dataType) == dataType.kind = "ENUM"

\* dataType instanceof ARRAY && dataType.options.type instanceof ENUM
IsArrayOfEnum(dataType) == dataType.kind = "ARRAY" /\ dataType.of = "ENUM"

toSql(dataType) ==
  CASE dataType.kind = "ENUM" -> dataType.name
    [] dataType.kind = "INTEGER" -> <<"INTEGER">>
    [] dataType.kind = "ARRAY" ->
         (IF dataType.of = "ENUM" THEN dataType.name ELSE <<"INTEGER">>) \o <<"[]">>
    [] OTHER -> <<>>

----------------------------------------------------------------------------
(* PostgresQueryGeneratorTypeScript *)

PgDescribeTableQuery(tableName) ==
  LET table == extractTableDetails(Postgres, tableName)
  IN Returns(joinSQLFragments(<<
       <<"SELECT">>,
       <<"pk.constraint_type as \"Constraint\",">>,
       <<"c.column_name as \"Field\",">>,
       <<"c.column_default as \"Default\",">>,
       <<"c.is_nullable as \"Null\",">>,
       <<"(CASE WHEN c.udt_name = 'hstore' THEN c.udt_name ELSE c.data_type END) || (CASE WHEN c.character_maximum_length IS NOT NULL THEN '(' || c.character_maximum_length || ')' ELSE '' END) as \"Type\",">>,
       <<"(SELECT array_agg(e.enumlabel) FROM pg_catalog.pg_type t JOIN pg_catalog.pg_enum e ON t.oid=e.enumtypid WHERE t.typname=c.udt_name) AS \"special\",">>,
       <<"(SELECT pgd.description FROM pg_catalog.pg_statio_all_tables AS st INNER JOIN pg_catalog.pg_description pgd on (pgd.objoid=st.relid) WHERE c.ordinal_position=pgd.objsubid AND c.table_name=st.relname) AS \"Comment\"">>,
       <<"FROM information_schema.columns c">>,
       <<"LEFT JOIN (SELECT tc.table_schema, tc.table_name,">>,
       <<"cu.column_name, tc.constraint_type">>,
       <<"FROM information_schema.TABLE_CONSTRAINTS tc">>,
       <<"JOIN information_schema.KEY_COLUMN_USAGE  cu">>,
       <<"ON tc.table_schema=cu.table_schema and tc.table_name=cu.table_name">>,
       <<"and tc.constraint_name=cu.constraint_name">>,
       <<"and tc.constraint_type='PRIMARY KEY') pk">>,
       <<"ON pk.table_schema=c.table_schema">>,
       <<"AND pk.table_name=c.table_name">>,
       <<"AND pk.column_name=c.column_name">>,
       <<"WHERE c.table_name = ">> \o escape(Str(table.tableName)),
       <<"AND c.table_schema = ">> \o escape(Str(table.schema))
     >>), <<"extractTableDetails", "joinSQLFragments">>)

PgShowConstraintsQuery(tableName, options) ==
  LET table == extractTableDetails(Postgres, tableName)
  IN Returns(joinSQLFragments(<<
       <<"SELECT c.constraint_catalog AS \"constraintCatalog\",">>,
       <<"c.constraint_schema AS \"constraintSchema\",">>,
       <<"c.constraint_name AS \"constraintName\",">>,
       <<"c.constraint_type AS \"constraintType\",">>,
       <<"c.table_catalog AS \"tableCatalog\",">>,
       <<"c.table_schema AS \"tableSchema\",">>,
       <<"c.table_name AS \"tableName\",">>,
       <<"kcu.column_name AS \"columnNames\",">>,
       <<"ccu.table_schema AS \"referencedTableSchema\",">>,
       <<"ccu.table_name AS \"referencedTableName\",">>,
       <<"ccu.column_name AS \"referencedColumnNames\",">>,
       <<"r.delete_rule AS \"deleteAction\",">>,
       <<"r.update_rule AS \"updateAction\",">>,
       <<"ch.check_clause AS \"definition\",">>,
       <<"c.is_deferrable AS \"isDeferrable\",">>,
       <<"c.initially_deferred AS \"initiallyDeferred\"">>,
       <<"FROM INFORMATION_SCHEMA.table_constraints c">>,
       <<"LEFT JOIN INFORMATION_SCHEMA.referential_constraints r ON c.constraint_catalog = r.constraint_catalog AND c.constraint_schema = r.constraint_schema AND c.constraint_name = r.constraint_name">>,
       <<"LEFT JOIN INFORMATION_SCHEMA.key_column_usage kcu ON r.constraint_catalog = kcu.constraint_catalog AND r.constraint_schema = kcu.constraint_schema AND r.constraint_name = kcu.constraint_name">>,
       <<"LEFT JOIN information_schema.constraint_column_usage AS ccu ON r.constraint_catalog = ccu.constraint_catalog AND r.constraint_schema = ccu.constraint_schema AND r.constraint_name = ccu.constraint_name">>,
       <<"LEFT JOIN INFORMATION_SCHEMA.check_constraints ch ON c.constraint_catalog = ch.constraint_catalog AND c.constraint_schema = ch.constraint_schema AND c.constraint_name = ch.constraint_name">>,
       <<"WHERE c.table_name = ">> \o escape(Str(table.tableName)),
       <<"AND c.table_schema = ">> \o escape(Str(table.schema)),
       IF IsNonEmpty(options, "constraintName")
         THEN <<"AND c.constraint_name = ">> \o escape(Str(options.opts["constraintName"]))
         ELSE <<>>,
       <<"ORDER BY c.constraint_name, kcu.ordinal_position">>
     >>), <<"extractTableDetails", "joinSQLFragments">>)

\* faulty variant: the table name is put between quotes as it is
PgShowIndexesQueryUnescaped(tableName) ==
  LET table == extractTableDetails(Postgres, tableName)
  IN Returns(joinSQLFragments(<<
       <<"SELECT i.relname AS name, ix.indisprimary AS primary, ix.indisunique AS unique, ix.indkey[:ix.indnkeyatts-1] AS index_fields,">>,
       <<"ix.indkey[ix.indnkeyatts:] AS include_fields, array_agg(a.attnum) as column_indexes, array_agg(a.attname) AS column_names,">>,
       <<"pg_get_indexdef(ix.indexrelid) AS definition FROM pg_class t, pg_class i, pg_index ix, pg_attribute a , pg_namespace s">>,
       <<"WHERE t.oid = ix.indrelid AND i.oid = ix.indexrelid AND a.attrelid = t.oid AND">>,
       <<"t.relkind = 'r' and t.relname = ">> \o <<"'">> \o table.tableName \o <<"'">>,
       <<"AND s.oid = t.relnamespace AND s.nspname = ">> \o escape(Str(table.schema)),
       <<"GROUP BY i.relname, ix.indexrelid, ix.indisprimary, ix.indisunique, ix.indkey, ix.indnkeyatts ORDER BY i.relname;">>
     >>), <<"extractTableDetails", "joinSQLFragments">>)

PgShowIndexesQuery(tableName) ==
  LET table == extractTableDetails(Postgres, tableName)
  IN Returns(joinSQLFragments(<<
       <<"SELECT i.relname AS name, ix.indisprimary AS primary, ix.indisunique AS unique, ix.indkey[:ix.indnkeyatts-1] AS index_fields,">>,
       <<"ix.indkey[ix.indnkeyatts:] AS include_fields, array_agg(a.attnum) as column_indexes, array_agg(a.attname) AS column_names,">>,
       <<"pg_get_indexdef(ix.indexrelid) AS definition FROM pg_class t, pg_class i, pg_index ix, pg_attribute a , pg_namespace s">>,
       <<"WHERE t.oid = ix.indrelid AND i.oid = ix.indexrelid AND a.attrelid = t.oid AND">>,
       <<"t.relkind = 'r' and t.relname = ">> \o escape(Str(table.tableName)),
       <<"AND s.oid = t.relnamespace AND s.nspname = ">> \o escape(Str(table.schema)),
       <<"GROUP BY i.relname, ix.indexrelid, ix.indisprimary, ix.indisunique, ix.indkey, ix.indnkeyatts ORDER BY i.relname;">>
     >>), <<"extractTableDetails", "joinSQLFragments">>)

\* indexNameOrAttributes: a name (isArray FALSE) or a list of column names
IndexName(name) == [isArray |-> FALSE, name |-> name, fields |-> <<>>]
IndexFields(fields) == [isArray |-> TRUE, name |-> <<>>, fields |-> fields]

\* the statement removeIndexQuery builds once its options are accepted
PgRemoveIndexStatement(tableName, indexNameOrAttributes, options) ==
  LET table == extractTableDetails(Postgres, tableName)
      indexName == IF indexNameOrAttributes.isArray
                     THEN generateIndexName(table, indexNameOrAttributes.fields)
                     ELSE indexNameOrAttributes.name
      steps == <<"extractTableDetails">>
                 \o (IF indexNameOrAttributes.isArray THEN <<"generateIndexName">> ELSE <<>>)
                 \o <<"joinSQLFragments">>
  IN Returns(joinSQLFragments(<<
       <<"DROP INDEX">>,
       IF IsTrue(options, "concurrently") THEN <<"CONCURRENTLY">> ELSE <<>>,
       IF IsTrue(options, "ifExists") THEN <<"IF EXISTS">> ELSE <<>>,
       quoteIdentifier(Postgres, table.schema) \o <<".">> \o quoteIdentifier(Postgres, indexName),
       IF IsTrue(options, "cascade") THEN <<"CASCADE">> ELSE <<>>
     >>), steps)

\* faulty variant: the check of cascade with concurrently is left out
PgRemoveIndexQueryNoConflictCheck(tableName, indexNameOrAttributes, options) ==
  PgRemoveIndexStatement(tableName, indexNameOrAttributes, options)

PgRemoveIndexQuery(tableName, indexNameOrAttributes, options) ==
  IF IsTrue(options, "cascade") /\ IsTrue(options, "concurrently")
    THEN Throws("Error",
                "Cannot specify both concurrently and cascade options in removeIndexQuery for postgres dialect",
                <<>>)
    ELSE PgRemoveIndexStatement(tableName, indexNameOrAttributes, options)

\* faulty variant: the segments of a multi-level path are passed as they are
PgJsonPathExtractionQueryRawSegments(sqlExpression, path, unquote) ==
  LET operator == IF Len(path) = 1
                    THEN (IF unquote THEN "->>" ELSE "->")
                    ELSE (IF unquote THEN "#>>" ELSE "#>")
      pathSql == IF Len(path) = 1 THEN escape(path[1]) ELSE escape(Arr(path))
  IN Returns(sqlExpression \o <<operator>> \o pathSql, <<>>)

PgJsonPathExtractionQuery(sqlExpression, path, unquote) ==
  LET operator == IF Len(path) = 1
                    THEN (IF unquote THEN "->>" ELSE "->")
                    ELSE (IF unquote THEN "#>>" ELSE "#>")
      pathSql == IF Len(path) = 1
                   THEN escape(path[1])
                   ELSE escape(Arr([i \in 1..Len(path) |-> Str(ToStringValue(path[i]))]))
  IN Returns(sqlExpression \o <<operator>> \o pathSql, <<>>)

PgVersionQuery == <<"SHOW SERVER_VERSION">>

\* dataTypeOrName: a string or a data type instance
AsName(name) == [isString |-> TRUE, name |-> name, dataType |-> NoType]
AsType(dataType) == [isString |-> FALSE, name |-> <<>>, dataType |-> dataType]

NameOf(dataTypeOrName) ==
  IF dataTypeOrName.isString THEN dataTypeOrName.name ELSE toSql(dataTypeOrName.dataType)

PgDropEnumQuery(schema, dataTypeOrName) ==
  LET name == NameOf(dataTypeOrName)
  IN <<"DROP TYPE IF EXISTS ">> \o quoteIdentifier(Postgres, schema) \o <<".">>
       \o quoteIdentifier(Postgres, name) \o <<"; ">>

\* faulty variant: the table is resolved before the data type is tested
PgCreateEnumQueryResolvesFirst(tableOrModel, dataType, options) ==
  LET table == extractTableDetails(Postgres, tableOrModel)
  IN IF ~ IsEnum(dataType)
       THEN Throws("TypeError", "createEnumQuery expects an instance of the ENUM DataType",
                   <<"extractTableDetails">>)
       ELSE
         LET enumName == toSql(dataType)
             values == <<"ENUM(">>
                         \o Join([i \in 1..Len(dataType.values) |->
                                    escape(Str(dataType.values[i]))], <<", ">>)
                         \o <<")">>
             sql == <<"DO ">>
                      \o escape(Str(<<"BEGIN CREATE TYPE ">>
                                      \o quoteIdentifier(Postgres, table.schema) \o <<".">>
                                      \o quoteIdentifier(Postgres, enumName)
                                      \o <<"  AS ">> \o values
                                      \o <<"; EXCEPTION WHEN duplicate_object THEN null; END">>))
                      \o <<";">>
         IN Returns(IF "force" \in Keys(options) /\ options.opts["force"] = TRUE
                      THEN PgDropEnumQuery(table.schema, AsName(enumName)) \o sql
                      ELSE sql,
                    <<"extractTableDetails", "toSql">>)

PgCreateEnumQuery(tableOrModel, dataType, options) ==
  IF ~ IsEnum(dataType)
    THEN Throws("TypeError", "createEnumQuery expects an instance of the ENUM DataType", <<>>)
    ELSE
      LET table == extractTableDetails(Postgres, tableOrModel)
          enumName == toSql(dataType)
          values == <<"ENUM(">>
                      \o Join([i \in 1..Len(dataType.values) |-> escape(Str(dataType.values[i]))],
                              <<", ">>)
                      \o <<")">>
          sql == <<"DO ">>
                   \o escape(Str(<<"BEGIN CREATE TYPE ">>
                                   \o quoteIdentifier(Postgres, table.schema) \o <<".">>
                                   \o quoteIdentifier(Postgres, enumName)
                                   \o <<"  AS ">> \o values
                                   \o <<"; EXCEPTION WHEN duplicate_object THEN null; END">>))
                   \o <<";">>
      IN Returns(IF "force" \in Keys(options) /\ options.opts["force"] = TRUE
                   THEN PgDropEnumQuery(table.schema, AsName(enumName)) \o sql
                   ELSE sql,
                 <<"extractTableDetails", "toSql">>)

\* generatorSchema is this.options.schema, empty when the generator has none.  The text
\* is the source's, cut at the names of tables, aliases and columns.
PgListEnumsQuery(generatorSchema, options) ==
  LET given == "dataTypeOrName" \in Keys(options)
                 /\ ~ (options.opts["dataTypeOrName"].isString
                        /\ options.opts["dataTypeOrName"].name = <<>>)
      enumName == IF ~ given THEN <<>> ELSE NameOf(options.opts["dataTypeOrName"])
      enumNameFilter == IF enumName # <<>>
                          THEN <<" AND ", "t", ".", "typname", "=">> \o escape(Str(enumName))
                          ELSE <<>>
      schema == IF IsNonEmpty(options, "schema") THEN options.opts["schema"]
                ELSE IF generatorSchema # <<>> THEN generatorSchema
                ELSE DefaultSchema(Postgres)
  IN Returns(<<"SELECT ", "t", ".", "typname", " enum_name, array_agg(", "e", ".", "enumlabel",
               " ORDER BY enumsortorder) enum_value ", "FROM ", "pg_type", " ", "t", " ">>
               \o <<"JOIN ", "pg_enum", " ", "name", " ON ", "t", ".", "oid", " = ",
                    "e", ".", "enumtypid", " ">>
               \o <<"JOIN ", "pg_catalog", ".", "pg_namespace", " ", "schema", " ON ",
                    "n", ".", "oid", " = ", "t", ".", "typnamespace", " ">>
               \o <<"WHERE ", "n", ".", "nspname", " = ">> \o escape(Str(schema))
               \o enumNameFilter \o <<" GROUP BY 1">>,
             <<>>)

\* the statement up to the position clause
AddValueStatement(schema, dataTypeOrName, value) ==
  <<"ALTER TYPE  ">> \o quoteIdentifier(Postgres, schema) \o <<".">>
    \o quoteIdentifier(Postgres, NameOf(dataTypeOrName))
    \o <<" ADD VALUE IF NOT EXISTS ">> \o escape(Str(value))

\* faulty variant: after is tested first
PgAddValueToEnumQueryAfterFirst(schema, dataTypeOrName, value, options) ==
  LET sql == AddValueStatement(schema, dataTypeOrName, value)
  IN Returns(IF IsNonEmpty(options, "after")
               THEN sql \o <<" AFTER ">> \o escape(Str(options.opts["after"]))
             ELSE IF IsNonEmpty(options, "before")
               THEN sql \o <<" BEFORE ">> \o escape(Str(options.opts["before"]))
             ELSE sql,
             <<"toSql">>)

PgAddValueToEnumQuery(schema, dataTypeOrName, value, options) ==
  LET sql == AddValueStatement(schema, dataTypeOrName, value)
  IN Returns(IF IsNonEmpty(options, "before")
               THEN sql \o <<" BEFORE ">> \o escape(Str(options.opts["before"]))
             ELSE IF IsNonEmpty(options, "after")
               THEN sql \o <<" AFTER ">> \o escape(Str(options.opts["after"]))
             ELSE sql,
             <<"toSql">>)

\* A column definition of changeColumnsQuery.  hasComment is 'comment' in columnDef;
\* commentIsNull stands for a comment that is null or undefined.
Attribute(type, hasComment, commentIsNull, comment, autoIncrement) ==
  [type |-> type, hasComment |-> hasComment, commentIsNull |-> commentIsNull,
   comment |-> comment, autoIncrement |-> autoIncrement]

Entry(columnName, attribute) == [columnName |-> columnName, attribute |-> attribute]

normalizeChangeColumnAttribute(attribute) ==
  [type |-> attribute.type,
   hasComment |-> attribute.hasComment,
   commentIsNull |-> attribute.hasComment /\ attribute.commentIsNull,
   comment |-> IF attribute.hasComment /\ ~ attribute.commentIsNull THEN attribute.comment ELSE <<>>,
   autoIncrement |-> attribute.autoIncrement]

\* the ALTER COLUMN actions of the base generator for one column
AlterColumnActions(columnName, attribute) ==
  IF attribute.type.kind # "none"
    THEN << <<"ALTER COLUMN ">> \o quoteIdentifier(Postgres, columnName)
              \o <<" TYPE ">> \o toSql(attribute.type) >>
    ELSE <<>>

\* super.changeColumnsQuery: one ALTER TABLE statement, empty when nothing is altered
AbstractChangeColumnsQuery(tableOrModel, columnDefinitions) ==
  LET actions == Concat([i \in 1..Len(columnDefinitions) |->
                           AlterColumnActions(columnDefinitions[i].columnName,
                                              columnDefinitions[i].attribute)])
  IN IF actions = <<>> THEN <<>>
     ELSE <<"ALTER TABLE ">> \o quoteTable(Postgres, tableOrModel) \o <<" ">>
            \o Join(actions, <<", ">>) \o <<";">>

CommentStatement(table, columnName, columnDef) ==
  IF columnDef.commentIsNull
    THEN <<"COMMENT ON COLUMN ">> \o quoteTable(Postgres, table) \o <<".">>
           \o quoteIdentifier(Postgres, columnName) \o <<" IS NULL;">>
    ELSE <<"COMMENT ON COLUMN ">> \o quoteTable(Postgres, table) \o <<".">>
           \o quoteIdentifier(Postgres, columnName) \o <<" IS ">>
           \o escape(Str(columnDef.comment)) \o <<";">>

SequenceStatement(table, columnName) ==
  <<"CREATE SEQUENCE IF NOT EXISTS ">>
    \o quoteIdentifier(Postgres, generateSequenceName(table.tableName, columnName))
    \o <<" OWNED BY ">> \o quoteTable(Postgres, table) \o <<".">>
    \o quoteIdentifier(Postgres, columnName) \o <<";">>

RenameEnumStatement(table, columnName) ==
  <<"ALTER TYPE ">> \o quoteIdentifier(Postgres, table.schema) \o <<".">>
    \o quoteIdentifier(Postgres, generateEnumName(table.tableName, columnName, TRUE))
    \o <<" RENAME TO ">>
    \o quoteIdentifier(Postgres, generateEnumName(table.tableName, columnName, FALSE))
    \o <<";">>

\* the type passed to createEnumQuery for an enum or array-of-enum column
CreateEnumArgument(columnDef) == columnDef.type

\* the for loop over the normalized definitions, from entry i on; out is the
\* list of statements so far.  thrown is the error of a call that threw.
RECURSIVE ChangeColumnsLoop(_, _, _, _)
ChangeColumnsLoop(table, entries, i, out) ==
  IF i > Len(entries)
    THEN [threw |-> FALSE, out |-> out, thrown |-> NoResult]
    ELSE
      LET columnName == entries[i].columnName
          columnDef == entries[i].attribute
          out1 == IF columnDef.hasComment
                    THEN Append(out, CommentStatement(table, columnName, columnDef))
                    ELSE out
          out2 == IF columnDef.autoIncrement
                    THEN <<SequenceStatement(table, columnName)>> \o out1
                    ELSE out1
      IN IF IsEnum(columnDef.type) \/ IsArrayOfEnum(columnDef.type)
           THEN
             LET existingEnumName == generateEnumName(table.tableName, columnName, FALSE)
                 created == PgCreateEnumQuery(table, CreateEnumArgument(columnDef), NoOptions)
             IN IF created.kind = "throw"
                  THEN [threw |-> TRUE, out |-> out2, thrown |-> created]
                  ELSE ChangeColumnsLoop(table, entries, i + 1,
                         (<<created.sql>> \o out2)
                           \o << PgDropEnumQuery(table.schema, AsName(existingEnumName)),
                                 RenameEnumStatement(table, columnName) >>)
           ELSE ChangeColumnsLoop(table, entries, i + 1, out2)

PgChangeColumnsQuery(tableOrModel, columnDefinitions) ==
  LET sql == AbstractChangeColumnsQuery(tableOrModel, columnDefinitions)
      normalizedChangeColumnDefinitions ==
        [i \in 1..Len(columnDefinitions) |->
           Entry(columnDefinitions[i].columnName,
                 normalizeChangeColumnAttribute(columnDefinitions[i].attribute))]
      table == extractTableDetails(Postgres, tableOrModel)
      steps == <<"super.changeColumnsQuery", "normalizeChangeColumnAttribute", "extractTableDetails">>
      loop == ChangeColumnsLoop(table, normalizedChangeColumnDefinitions, 1,
                                IF sql # <<>> THEN <<sql>> ELSE <<>>)
  IN IF loop.threw
       THEN Throws(loop.thrown.error, loop.thrown.message,
                   steps \o <<"createEnumQuery">> \o loop.thrown.steps)
       ELSE Returns(Join(loop.out, <<" ">>), steps)

----------------------------------------------------------------------------
(* MariaDbQueryGeneratorTypeScript *)

MariaDbDescribeTableQuery(tableName) ==
  Returns(<<"SHOW FULL COLUMNS FROM ">> \o quoteTable(MariaDb, tableName) \o <<";">>,
          <<"quoteTable">>)

MariaDbShowConstraintsQuery(tableName, options) ==
  LET table == extractTableDetails(MariaDb, tableName)
  IN Returns(joinSQLFragments(<<
       <<"SELECT c.CONSTRAINT_CATALOG AS constraintCatalog,">>,
       <<"c.CONSTRAINT_SCHEMA AS constraintSchema,">>,
       <<"c.CONSTRAINT_NAME AS constraintName,">>,
       <<"c.CONSTRAINT_TYPE AS constraintType,">>,
       <<"c.TABLE_SCHEMA AS tableSchema,">>,
       <<"c.TABLE_NAME AS tableName,">>,
       <<"kcu.COLUMN_NAME AS columnNames,">>,
       <<"kcu.REFERENCED_TABLE_NAME AS referencedTableName,">>,
       <<"kcu.REFERENCED_COLUMN_NAME AS referencedColumnNames,">>,
       <<"r.DELETE_RULE AS deleteAction,">>,
       <<"r.UPDATE_RULE AS updateAction,">>,
       <<"ch.CHECK_CLAUSE AS definition">>,
       <<"FROM INFORMATION_SCHEMA.TABLE_CONSTRAINTS c">>,
       <<"LEFT JOIN INFORMATION_SCHEMA.REFERENTIAL_CONSTRAINTS r ON c.CONSTRAINT_CATALOG = r.CONSTRAINT_CATALOG">>,
       <<"AND c.CONSTRAINT_SCHEMA = r.CONSTRAINT_SCHEMA AND c.CONSTRAINT_NAME = r.CONSTRAINT_NAME AND c.TABLE_NAME = r.TABLE_NAME">>,
       <<"LEFT JOIN INFORMATION_SCHEMA.KEY_COLUMN_USAGE kcu ON r.CONSTRAINT_CATALOG = kcu.CONSTRAINT_CATALOG">>,
       <<"AND r.CONSTRAINT_SCHEMA = kcu.CONSTRAINT_SCHEMA AND r.CONSTRAINT_NAME = kcu.CONSTRAINT_NAME AND r.TABLE_NAME = kcu.TABLE_NAME">>,
       <<"LEFT JOIN INFORMATION_SCHEMA.CHECK_CONSTRAINTS ch ON c.CONSTRAINT_CATALOG = ch.CONSTRAINT_CATALOG">>,
       <<"AND c.CONSTRAINT_SCHEMA = ch.CONSTRAINT_SCHEMA AND c.CONSTRAINT_NAME = ch.CONSTRAINT_NAME">>,
       <<"WHERE c.TABLE_NAME = ">> \o escape(Str(table.tableName)),
       <<"AND c.TABLE_SCHEMA = ">> \o escape(Str(table.schema)),
       IF IsNonEmpty(options, "constraintName")
         THEN <<"AND c.CONSTRAINT_NAME = ">> \o escape(Str(options.opts["constraintName"]))
         ELSE <<>>,
       <<"ORDER BY c.CONSTRAINT_NAME">>
     >>), <<"extractTableDetails", "joinSQLFragments">>)

MariaDbShowIndexesQuery(tableName) ==
  Returns(<<"SHOW INDEX FROM ">> \o quoteTable(MariaDb, tableName), <<"quoteTable">>)

\* faulty variant: the name derived from a column list leaves the table name out
MariaDbRemoveIndexQueryNameFromColumns(tableName, indexNameOrAttributes, options) ==
  IF options.present
     /\ rejectInvalidOptions(REMOVE_INDEX_QUERY_SUPPORTABLE_OPTIONS,
                             REMOVE_INDEX_QUERY_SUPPORTED_OPTIONS, options)
    THEN Throws("Error", "removeIndexQuery: options not supported by the mariadb dialect",
                <<"rejectInvalidOptions">>)
    ELSE
      LET indexName == IF indexNameOrAttributes.isArray
                         THEN Join(indexNameOrAttributes.fields, <<"_">>)
                         ELSE indexNameOrAttributes.name
      IN Returns(joinSQLFragments(<<
           <<"DROP INDEX">>,
           IF IsTrue(options, "ifExists") THEN <<"IF EXISTS">> ELSE <<>>,
           quoteIdentifier(MariaDb, indexName),
           <<"ON">>,
           quoteTable(MariaDb, tableName)
         >>), <<"joinSQLFragments">>)

MariaDbRemoveIndexQuery(tableName, indexNameOrAttributes, options) ==
  IF options.present
     /\ rejectInvalidOptions(REMOVE_INDEX_QUERY_SUPPORTABLE_OPTIONS,
                             REMOVE_INDEX_QUERY_SUPPORTED_OPTIONS, options)
    THEN Throws("Error", "removeIndexQuery: options not supported by the mariadb dialect",
                <<"rejectInvalidOptions">>)
    ELSE
      LET indexName == IF indexNameOrAttributes.isArray
                         THEN generateIndexName(extractTableDetails(MariaDb, tableName),
                                                indexNameOrAttributes.fields)
                         ELSE indexNameOrAttributes.name
          steps == (IF options.present THEN <<"rejectInvalidOptions">> ELSE <<>>)
                     \o (IF indexNameOrAttributes.isArray
                           THEN <<"extractTableDetails", "generateIndexName">> ELSE <<>>)
                     \o <<"joinSQLFragments">>
      IN Returns(joinSQLFragments(<<
           <<"DROP INDEX">>,
           IF IsTrue(options, "ifExists") THEN <<"IF EXISTS">> ELSE <<>>,
           quoteIdentifier(MariaDb, indexName),
           <<"ON">>,
           quoteTable(MariaDb, tableName)
         >>), steps)

\* faulty variant: without unquote the json_extract call is returned bare
MariaDbJsonPathExtractionQueryBare(sqlExpression, path, unquote) ==
  LET extractQuery == <<"json_extract(">> \o sqlExpression \o <<",">>
                        \o escape(Str(buildJsonPath(path))) \o <<")">>
  IN IF unquote
       THEN Returns(<<"json_unquote(">> \o extractQuery \o <<")">>, <<"buildJsonPath">>)
       ELSE Returns(extractQuery, <<"buildJsonPath">>)

MariaDbJsonPathExtractionQuery(sqlExpression, path, unquote) ==
  LET extractQuery == <<"json_extract(">> \o sqlExpression \o <<",">>
                        \o escape(Str(buildJsonPath(path))) \o <<")">>
  IN IF unquote
       THEN Returns(<<"json_unquote(">> \o extractQuery \o <<")">>, <<"buildJsonPath">>)
       ELSE Returns(<<"json_compact(">> \o extractQuery \o <<")">>, <<"buildJsonPath">>)

MariaDbVersionQuery == <<"SELECT VERSION() as <backtick>version<backtick>">>

----------------------------------------------------------------------------
(* Inputs *)

TableNames == { <<"users">>, <<"o", "'", "\"", "k">> }
Schemas == { <<"app">>, <<"s", "'">> }
TableRefs ==
  { TableName(t) : t \in TableNames }
    \cup { TableWithSchema(t, sch) : t \in TableNames, sch \in Schemas }
ConstraintNames == { <<"fk_owner">>, <<"c", "'", "1">> }
ColumnNames == { <<"a">>, <<"b">>, <<"c", "\"">> }
IndexNames == { <<"users_a">>, <<"i", "\"", "x">> }
EnumLabels == { <<"low">>, <<"hi", "'", "gh">> }
EnumTypeNames == { <<"enum_users_a">>, <<"e", "\"", "t">> }
EnumValueList == << <<"low">>, <<"hi", "'", "gh">> >>
SqlExpressions == { <<"\"doc\"">>, <<"t.", "j", "->", "'", "a", "'">> }
Segments == { Num(0), Num(12), Str(<<"key">>), Str(<<"k", "'", "\"">>) }
GeneratorSchemas == { <<>>, <<"gen">> }

\* sequences over S of length lo..hi
SeqsOf(S, lo, hi) == UNION { [1..n -> S] : n \in lo..hi }

\* sequences without repetition
Distinct(S, lo, hi) ==
  { q \in SeqsOf(S, lo, hi) : \A i, j \in 1..Len(q) : i # j => q[i] # q[j] }

Paths == SeqsOf(Segments, 0, MaxPathLen)
FieldLists == Distinct(ColumnNames, 1, MaxFields)
IndexNameOrAttributes ==
  { IndexName(n) : n \in IndexNames } \cup { IndexFields(f) : f \in FieldLists }

\* a key outside the declared ones that an options object may carry as well
UnknownOption == "unknownOption"

RemoveIndexOptions ==
  {NoOptions}
    \cup UNION { { Options(o) :
                     o \in { f \in [ks -> BOOLEAN] : UnknownOption \in ks => f[UnknownOption] } }
                 : ks \in SUBSET (REMOVE_INDEX_QUERY_SUPPORTABLE_OPTIONS \cup {UnknownOption}) }

ShowConstraintsOptions ==
  {NoOptions, Options(<<>>)}
    \cup { Options([k \in {"constraintName"} |-> c]) : c \in ConstraintNames }
    \cup { Options([k \in {"constraintName", UnknownOption} |-> c]) : c \in ConstraintNames }

CreateEnumOptions ==
  {NoOptions}
    \cup UNION { { Options(o) : o \in [ks -> BOOLEAN] } : ks \in SUBSET {"force", UnknownOption} }

DataTypeOrNames ==
  { AsName(n) : n \in EnumTypeNames }
    \cup { AsType(EnumType(n, EnumValueList)) : n \in EnumTypeNames }

\* before, after and the unknown key all hold enum labels
AddValueOptions ==
  {NoOptions}
    \cup UNION { { Options(o) : o \in [ks -> EnumLabels] }
                 : ks \in SUBSET {"before", "after", UnknownOption} }

ListEnumsOptions ==
  {NoOptions, Options(<<>>)}
    \cup { Options([k \in {"schema"} |-> sch]) : sch \in Schemas }
    \cup { Options([k \in {"dataTypeOrName"} |-> d]) : d \in DataTypeOrNames }
    \cup { Options([k \in {"schema", "dataTypeOrName"} |->
                      IF k = "schema" THEN sch ELSE d]) : sch \in Schemas, d \in DataTypeOrNames }
    \cup { Options([k \in {"schema", UnknownOption} |-> sch]) : sch \in Schemas }

DataTypes ==
  { EnumType(n, EnumValueList) : n \in EnumTypeNames }
    \cup { ArrayOfEnumType(n, EnumValueList) : n \in EnumTypeNames }
    \cup { IntegerType, ArrayOfIntegerType }

\* the choices for one column of changeColumnsQuery
TypeChoices == {"none", "INTEGER", "ENUM", "ARRAY_ENUM"}
CommentChoices == {"absent", "null", "text"}
AttributeChoices ==
  { c \in [type : TypeChoices, comment : CommentChoices, autoIncrement : BOOLEAN] :
      c.autoIncrement => c.type \in {"none", "INTEGER"} }

\* the data type of column columnName of the table: an enum type renders to the
\* replacement name of the column's enum
ColumnType(choice, tableName, columnName) ==
  CASE choice = "none" -> NoType
    [] choice = "INTEGER" -> IntegerType
    [] choice = "ENUM" ->
         EnumType(generateEnumName(tableName, columnName, TRUE), EnumValueList)
    [] choice = "ARRAY_ENUM" ->
         ArrayOfEnumType(generateEnumName(tableName, columnName, TRUE), EnumValueList)

ColumnDefinitions(tableName, columns, choices) ==
  [i \in 1..Len(columns) |->
     Entry(columns[i],
           Attribute(ColumnType(choices[i].type, tableName, columns[i]),
                     choices[i].comment # "absent",
                     choices[i].comment = "null",
                     IF choices[i].comment = "text" THEN <<"it", "'", "s">> ELSE <<>>,
                     choices[i].autoIncrement))]

RemoveIndexTables == { TableName(<<"users">>), TableWithSchema(<<"o", "'", "\"", "k">>, <<"s", "'">>) }

ChangeColumnsTables == { TableName(<<"users">>), TableWithSchema(<<"o", "'", "\"", "k">>, <<"s", "'">>) }

----------------------------------------------------------------------------
(* The state: the call a caller has made of a generator and its outcome,   *)
(* until the caller takes the outcome; the version fetch in progress.      *)

NoCall == [op |-> "none"]

Init ==
  /\ call = NoCall
  /\ result = NoResult
  /\ pc = "idle"
  /\ executed = <<>>

Idle == call = NoCall

Invoke(c, r) ==
  /\ call' = c
  /\ result' = r
  /\ UNCHANGED <<pc, executed>>

PgDescribeTable ==
  /\ Idle
  /\ \E t \in TableRefs :
       Invoke([op |-> "describeTableQuery", dialect |-> Postgres, tableName |-> t],
              PgDescribeTableQuery(t))

PgShowConstraints ==
  /\ Idle
  /\ \E t \in TableRefs, o \in ShowConstraintsOptions :
       Invoke([op |-> "showConstraintsQuery", dialect |-> Postgres, tableName |-> t, options |-> o],
              PgShowConstraintsQuery(t, o))

PgShowIndexes ==
  /\ Idle
  /\ \E t \in TableRefs :
       Invoke([op |-> "showIndexesQuery", dialect |-> Postgres, tableName |-> t],
              PgShowIndexesQuery(t))

PgRemoveIndex ==
  /\ Idle
  /\ \E t \in RemoveIndexTables, ix \in IndexNameOrAttributes, o \in RemoveIndexOptions :
       Invoke([op |-> "removeIndexQuery", dialect |-> Postgres, tableName |-> t,
               indexNameOrAttributes |-> ix, options |-> o],
              PgRemoveIndexQuery(t, ix, o))

PgJsonPathExtraction ==
  /\ Idle
  /\ \E e \in SqlExpressions, p \in Paths, u \in BOOLEAN :
       Invoke([op |-> "jsonPathExtractionQuery", dialect |-> Postgres,
               sqlExpression |-> e, path |-> p, unquote |-> u],
              PgJsonPathExtractionQuery(e, p, u))

PgChangeColumns ==
  /\ Idle
  /\ \E t \in ChangeColumnsTables, cols \in Distinct(ColumnNames, 0, MaxColumns) :
       \E choices \in [1..Len(cols) -> AttributeChoices] :
         LET defs == ColumnDefinitions(t.tableName, cols, choices)
         IN Invoke([op |-> "changeColumnsQuery", dialect |-> Postgres, tableName |-> t,
                    columnDefinitions |-> defs],
                   PgChangeColumnsQuery(t, defs))

PgCreateEnum ==
  /\ Idle
  /\ \E t \in TableRefs, d \in DataTypes, o \in CreateEnumOptions :
       Invoke([op |-> "createEnumQuery", dialect |-> Postgres, tableName |-> t,
               dataType |-> d, options |-> o],
              PgCreateEnumQuery(t, d, o))

PgDropEnum ==
  /\ Idle
  /\ \E sch \in Schemas, d \in DataTypeOrNames :
       Invoke([op |-> "dropEnumQuery", dialect |-> Postgres, schema |-> sch, dataTypeOrName |-> d],
              Returns(PgDropEnumQuery(sch, d), <<>>))

PgListEnums ==
  /\ Idle
  /\ \E g \in GeneratorSchemas, o \in ListEnumsOptions :
       Invoke([op |-> "listEnumsQuery", dialect |-> Postgres, generatorSchema |-> g, options |-> o],
              PgListEnumsQuery(g, o))

PgAddValueToEnum ==
  /\ Idle
  /\ \E sch \in Schemas, d \in DataTypeOrNames, v \in EnumLabels, o \in AddValueOptions :
       Invoke([op |-> "addValueToEnumQuery", dialect |-> Postgres, schema |-> sch,
               dataTypeOrName |-> d, value |-> v, options |-> o],
              PgAddValueToEnumQuery(sch, d, v, o))

MariaDbDescribeTable ==
  /\ Idle
  /\ \E t \in TableRefs :
       Invoke([op |-> "describeTableQuery", dialect |-> MariaDb, tableName |-> t],
              MariaDbDescribeTableQuery(t))

MariaDbShowConstraints ==
  /\ Idle
  /\ \E t \in TableRefs, o \in ShowConstraintsOptions :
       Invoke([op |-> "showConstraintsQuery", dialect |-> MariaDb, tableName |-> t, options |-> o],
              MariaDbShowConstraintsQuery(t, o))

MariaDbShowIndexes ==
  /\ Idle
  /\ \E t \in TableRefs :
       Invoke([op |-> "showIndexesQuery", dialect |-> MariaDb, tableName |-> t],
              MariaDbShowIndexesQuery(t))

MariaDbRemoveIndex ==
  /\ Idle
  /\ \E t \in RemoveIndexTables, ix \in IndexNameOrAttributes, o \in RemoveIndexOptions :
       Invoke([op |-> "removeIndexQuery", dialect |-> MariaDb, tableName |-> t,
               indexNameOrAttributes |-> ix, options |-> o],
              MariaDbRemoveIndexQuery(t, ix, o))

MariaDbJsonPathExtraction ==
  /\ Idle
  /\ \E e \in SqlExpressions, p \in Paths, u \in BOOLEAN :
       Invoke([op |-> "jsonPathExtractionQuery", dialect |-> MariaDb,
               sqlExpression |-> e, path |-> p, unquote |-> u],
              MariaDbJsonPathExtractionQuery(e, p, u))

\* the caller takes the string returned, or the error thrown
TakeOutcome ==
  /\ ~ Idle
  /\ pc = "idle"
  /\ call' = NoCall
  /\ result' = NoResult
  /\ UNCHANGED <<pc, executed>>

Next ==
  \/ PgDescribeTable
  \/ PgShowConstraints
  \/ PgShowIndexes
  \/ PgRemoveIndex
  \/ PgJsonPathExtraction
  \/ PgChangeColumns
  \/ PgCreateEnum
  \/ PgDropEnum
  \/ PgListEnums
  \/ PgAddValueToEnum
  \/ MariaDbDescribeTable
  \/ MariaDbShowConstraints
  \/ MariaDbShowIndexes
  \/ MariaDbRemoveIndex
  \/ MariaDbJsonPathExtraction
  \/ TakeOutcome

Spec == Init /\ [][Next]_vars

----------------------------------------------------------------------------
(* AbstractQueryInterfaceInternal.fetchDatabaseVersionRaw                   *)

VersionRows == {"10.6.4", "15.2", "16.0"}
Null == "null"

versionQuery(dialect) == IF dialect = Postgres THEN PgVersionQuery ELSE MariaDbVersionQuery

\* what queryRaw resolves to with plain: true, for the rows the execution yields
queryRawPlain(rows) == IF rows = <<>> THEN Null ELSE rows[1]

ReturnsRow(row) == [kind |-> "row", row |-> row, steps |-> <<"queryRaw">>]

\* assert(out != null); return out
AssertNotNull(out) ==
  IF out = Null
    THEN Throws("AssertionError", "out != null", <<"queryRaw">>)
    ELSE ReturnsRow(out)

\* the call up to its await: the version query is handed to queryRaw
FetchDatabaseVersionRaw ==
  \E d \in {Postgres, MariaDb} :
    /\ Idle
    /\ pc = "idle"
    /\ Len(executed) < MaxExecuted
    /\ call' = [op |-> "fetchDatabaseVersionRaw", dialect |-> d,
                startedAt |-> Len(executed), settled |-> "no", rows |-> <<>>]
    /\ executed' = Append(executed, versionQuery(d))
    /\ pc' = "awaiting"
    /\ result' = NoResult

\* queryRaw resolves: the execution yielded rows
QueryRawResolves ==
  \E rows \in SeqsOf(VersionRows, 0, MaxRows) :
    /\ pc = "awaiting"
    /\ call' = [call EXCEPT !.settled = "resolved", !.rows = rows]
    /\ result' = AssertNotNull(queryRawPlain(rows))
    /\ pc' = "idle"
    /\ UNCHANGED executed

\* queryRaw rejects: the error of the execution propagates unchanged
QueryRawRejects ==
  /\ pc = "awaiting"
  /\ call' = [call EXCEPT !.settled = "rejected"]
  /\ result' = Throws("DatabaseError", "the query failed", <<"queryRaw">>)
  /\ pc' = "idle"
  /\ UNCHANGED executed

NextVersion ==
  \/ FetchDatabaseVersionRaw
  \/ QueryRawResolves
  \/ QueryRawRejects
  \/ TakeOutcome

SpecVersion == Init /\ [][NextVersion]_vars

----------------------------------------------------------------------------
(* Reading SQL back: the string literals and quoted identifiers of a text  *)
(* and what is left outside them                                           *)

\* the first position from i on at which s has one of the marks; 0 when there is none
NextMark(s, i, marks) ==
  LET at == { j \in i..Len(s) : s[j] \in marks }
  IN IF at = {} THEN 0 ELSE Min(at)

\* mode is "out" outside any quoted region, else the quote that opened the region
RECURSIVE Scan(_, _, _, _, _)
Scan(s, i, mode, cur, acc) ==
  LET next == NextMark(s, i, IF mode = "out" THEN {"'", "\"", Backtick} ELSE {mode})
      text == SubSeq(s, i, next - 1)
  IN IF mode = "out"
       THEN IF next = 0
              THEN [ok |-> TRUE, values |-> acc.values,
                    residue |-> acc.residue \o SubSeq(s, i, Len(s))]
              ELSE Scan(s, next + 1, s[next], <<>>, [acc EXCEPT !.residue = @ \o text])
     ELSE IF next = 0
       THEN [ok |-> FALSE, values |-> acc.values, residue |-> acc.residue]
     ELSE IF mode = "'" /\ next < Len(s) /\ s[next + 1] = "'"
       THEN Scan(s, next + 2, mode, cur \o text \o <<"'">>, acc)
     ELSE Scan(s, next + 1, "out", <<>>, [acc EXCEPT !.values = Append(@, cur \o text)])

ReadSql(s) == Scan(s, 1, "out", <<>>, [values |-> <<>>, residue |-> <<>>])

\* the number a sequence of digit chunks writes; -1 when it is not one
RECURSIVE ParseNumber(_)
ParseNumber(s) ==
  IF s = <<>> THEN -1
  ELSE LET d == { k \in 0..9 : Digits[k + 1] = s[Len(s)] }
       IN IF d = {} THEN -1
          ELSE IF Len(s) = 1 THEN Min(d)
          ELSE LET rest == ParseNumber(SubSeq(s, 1, Len(s) - 1))
               IN IF rest < 0 THEN -1 ELSE 10 * rest + Min(d)

Range(q) == { q[i] : i \in DOMAIN q }

----------------------------------------------------------------------------
(* Claims *)

IsRemoveIndex(dialect) == call.op = "removeIndexQuery" /\ call.dialect = dialect

\* an error of the configuration kind: thrown for an option combination or an
\* option the dialect does not support
IsConfigurationError(r) == r.kind = "throw" /\ r.error = "Error" /\ r.sql = <<>>

\* C1: Postgres removeIndexQuery with cascade and concurrently both set fails with a
\* configuration error and returns no SQL, whatever the table, the index name or
\* column list and ifExists are, before the table is resolved or any fragment built.
C1_CascadeWithConcurrentlyRejected ==
  (IsRemoveIndex(Postgres)
     /\ IsTrue(call.options, "cascade") /\ IsTrue(call.options, "concurrently"))
    => /\ IsConfigurationError(result)
       /\ result.steps = <<>>

C1_Witness ==
  /\ IsRemoveIndex(Postgres)
  /\ IsTrue(call.options, "cascade") /\ IsTrue(call.options, "concurrently")
  /\ IsTrue(call.options, "ifExists")
  /\ call.indexNameOrAttributes.isArray
  /\ call.tableName.hasSchema
  /\ result.kind = "throw"

\* the option keys each operation supports in each dialect
SupportedOptions(dialect, op) ==
  CASE op = "removeIndexQuery" ->
         IF dialect = MariaDb THEN REMOVE_INDEX_QUERY_SUPPORTED_OPTIONS
                              ELSE REMOVE_INDEX_QUERY_SUPPORTABLE_OPTIONS
    [] op = "showConstraintsQuery" -> {"constraintName"}
    [] op = "createEnumQuery" -> {"force"}
    [] op = "listEnumsQuery" -> {"schema", "dataTypeOrName"}
    [] op = "addValueToEnumQuery" -> {"before", "after"}

OperationsWithOptions ==
  {"removeIndexQuery", "showConstraintsQuery", "createEnumQuery", "listEnumsQuery",
   "addValueToEnumQuery"}

\* C2: every operation that takes an options object rejects, returning no SQL, a call
\* whose options hold a key outside the operation's supported set for the dialect.
C2_UnsupportedOptionRejected ==
  (call.op \in OperationsWithOptions
     /\ Keys(call.options) \ SupportedOptions(call.dialect, call.op) # {})
    => result.kind = "throw"

----------------------------------------------------------------------------
(* changeColumnsQuery: the statements of a column, as they stand in the    *)
(* returned string                                                         *)

IsChangeColumns == call.op = "changeColumnsQuery"

CallTable == extractTableDetails(Postgres, call.tableName)

\* first position of sub in s, 0 when it does not occur
Pos(s, sub) == IF Occurrences(s, sub) = {} THEN 0 ELSE Min(Occurrences(s, sub))

\* the start of the statement creating the enum type of the column under its
\* temporary name, as it reads inside the DO block's string literal
CreateTempEnumText(columnName) ==
  <<"DO ", "'">>
    \o Replace(<<"BEGIN CREATE TYPE ">>
                 \o quoteIdentifier(Postgres, CallTable.schema) \o <<".">>
                 \o quoteIdentifier(Postgres,
                                    generateEnumName(CallTable.tableName, columnName, TRUE))
                 \o <<"  AS ">>,
               "'", <<"'", "'">>)

AlterTableText == <<"ALTER TABLE ">>

AlterColumnText(columnName) ==
  <<"ALTER COLUMN ">> \o quoteIdentifier(Postgres, columnName) \o <<" TYPE ">>

DropOldEnumText(columnName) ==
  <<"DROP TYPE IF EXISTS ">> \o quoteIdentifier(Postgres, CallTable.schema) \o <<".">>
    \o quoteIdentifier(Postgres, generateEnumName(CallTable.tableName, columnName, FALSE))
    \o <<"; ">>

RenameTempEnumText(columnName) ==
  <<"ALTER TYPE ">> \o quoteIdentifier(Postgres, CallTable.schema) \o <<".">>
    \o quoteIdentifier(Postgres, generateEnumName(CallTable.tableName, columnName, TRUE))
    \o <<" RENAME TO ">>
    \o quoteIdentifier(Postgres, generateEnumName(CallTable.tableName, columnName, FALSE))
    \o <<";">>

CreateSequenceText(columnName) ==
  <<"CREATE SEQUENCE IF NOT EXISTS ">>
    \o quoteIdentifier(Postgres, generateSequenceName(CallTable.tableName, columnName))
    \o <<" OWNED BY ">> \o quoteTable(Postgres, CallTable) \o <<".">>
    \o quoteIdentifier(Postgres, columnName) \o <<";">>

CommentOnColumnText(columnName) ==
  <<"COMMENT ON COLUMN ">> \o quoteTable(Postgres, CallTable) \o <<".">>
    \o quoteIdentifier(Postgres, columnName)

\* create-temp-enum, the column's alter, drop-old-enum and rename-temp-to-canonical
\* each stand once in sql, in this order
EnumStatementsInOrder(sql, columnName) ==
  /\ Count(sql, CreateTempEnumText(columnName)) = 1
  /\ Count(sql, AlterColumnText(columnName)) = 1
  /\ Count(sql, DropOldEnumText(columnName)) = 1
  /\ Count(sql, RenameTempEnumText(columnName)) = 1
  /\ Pos(sql, CreateTempEnumText(columnName)) < Pos(sql, AlterTableText)
  /\ Pos(sql, AlterTableText) < Pos(sql, AlterColumnText(columnName))
  /\ Pos(sql, AlterColumnText(columnName)) < Pos(sql, DropOldEnumText(columnName))
  /\ Pos(sql, DropOldEnumText(columnName)) < Pos(sql, RenameTempEnumText(columnName))

\* one CREATE SEQUENCE per auto-increment column, before the base alter; one COMMENT
\* ON COLUMN per column with a comment key, after it, IS NULL for a null comment
SequenceAndCommentPlaced(sql, entry) ==
  LET columnName == entry.columnName
      attribute == entry.attribute
      comment == CommentOnColumnText(columnName)
               \o (IF attribute.commentIsNull
                     THEN <<" IS NULL;">>
                     ELSE <<" IS ">> \o escapeString(attribute.comment) \o <<";">>)
  IN /\ Count(sql, CreateSequenceText(columnName)) = (IF attribute.autoIncrement THEN 1 ELSE 0)
     /\ Count(sql, CommentOnColumnText(columnName)) = (IF attribute.hasComment THEN 1 ELSE 0)
     /\ attribute.hasComment => Count(sql, comment) = 1
     /\ (attribute.autoIncrement /\ Pos(sql, AlterTableText) > 0)
          => Pos(sql, CreateSequenceText(columnName)) < Pos(sql, AlterTableText)
     /\ (attribute.hasComment /\ Pos(sql, AlterTableText) > 0)
          => Pos(sql, comment) > Pos(sql, AlterTableText)

\* C3: for every column whose new type is an enum, whatever the other columns of the
\* mapping are, changeColumnsQuery returns a string holding create-temp-enum, the
\* column's alter, drop-old-enum and rename-temp-to-canonical in this order.
C3_EnumColumnStatementsInOrder ==
  IsChangeColumns =>
    \A i \in DOMAIN call.columnDefinitions :
      IsEnum(call.columnDefinitions[i].attribute.type)
        => /\ result.kind = "sql"
           /\ EnumStatementsInOrder(result.sql, call.columnDefinitions[i].columnName)

\* the order of C3 in every string changeColumnsQuery does return
EnumOrderInReturnedString ==
  (IsChangeColumns /\ result.kind = "sql") =>
    \A i \in DOMAIN call.columnDefinitions :
      IsEnum(call.columnDefinitions[i].attribute.type)
        => EnumStatementsInOrder(result.sql, call.columnDefinitions[i].columnName)

\* changeColumnsQuery throws exactly when some column is an array of enum
ThrowsOnlyForArrayOfEnum ==
  IsChangeColumns =>
    (result.kind = "throw"
       <=> \E i \in DOMAIN call.columnDefinitions :
             IsArrayOfEnum(call.columnDefinitions[i].attribute.type))

\* C4: a column whose new type is an array of enum is treated as an enum column:
\* changeColumnsQuery returns SQL that creates the temporary enum before the alter and
\* drops the old enum and renames the temporary one after it.
C4_ArrayOfEnumTreatedAsEnum ==
  IsChangeColumns =>
    \A i \in DOMAIN call.columnDefinitions :
      IsArrayOfEnum(call.columnDefinitions[i].attribute.type)
        => /\ result.kind = "sql"
           /\ EnumStatementsInOrder(result.sql, call.columnDefinitions[i].columnName)

\* C5: for any mapping changeColumnsQuery returns one string with one CREATE SEQUENCE
\* ... OWNED BY per auto-increment column, all before the base alter, and one COMMENT
\* ON COLUMN per column with a comment key (IS NULL for a null comment), all after it.
C5_SequencesBeforeCommentsAfter ==
  IsChangeColumns =>
    /\ result.kind = "sql"
    /\ \A i \in DOMAIN call.columnDefinitions :
         SequenceAndCommentPlaced(result.sql, call.columnDefinitions[i])

\* the placement of C5 in every string changeColumnsQuery does return
SequencesAndCommentsInReturnedString ==
  (IsChangeColumns /\ result.kind = "sql") =>
    \A i \in DOMAIN call.columnDefinitions :
      SequenceAndCommentPlaced(result.sql, call.columnDefinitions[i])

----------------------------------------------------------------------------
(* fetchDatabaseVersionRaw *)

IsFetchResolved == call.op = "fetchDatabaseVersionRaw" /\ call.settled = "resolved"

\* the call handed the dialect's version query to queryRaw, once
ExecutedVersionQueryOnce ==
  /\ Len(executed) = call.startedAt + 1
  /\ executed[Len(executed)] = versionQuery(call.dialect)

\* C6: fetchDatabaseVersionRaw executes the dialect's versionQuery once and returns the
\* row only when the execution yields exactly one row; with no row or more than one
\* row it fails an assertion and returns nothing.
C6_ExactlyOneRowOrAssertionFailure ==
  IsFetchResolved =>
    /\ ExecutedVersionQueryOnce
    /\ Len(call.rows) = 1 => (result.kind = "row" /\ result.row = call.rows[1])
    /\ Len(call.rows) # 1 => (result.kind = "throw" /\ result.error = "AssertionError")

\* what the code does: the first row is returned whenever there is one
FirstRowOrAssertionFailure ==
  IsFetchResolved =>
    /\ ExecutedVersionQueryOnce
    /\ Len(call.rows) >= 1 => (result.kind = "row" /\ result.row = call.rows[1])
    /\ Len(call.rows) = 0 => (result.kind = "throw" /\ result.error = "AssertionError")

----------------------------------------------------------------------------
(* addValueToEnumQuery *)

IsAddValue == call.op = "addValueToEnumQuery"

Given(key) == key \in Keys(call.options)

\* the options of the call without the key
Without(options, key) ==
  Options([k \in DOMAIN options.opts \ {key} |-> options.opts[k]])

EndsWith(s, suffix) ==
  Len(s) >= Len(suffix) /\ SubSeq(s, Len(s) - Len(suffix) + 1, Len(s)) = suffix

\* C7: addValueToEnumQuery places the value deterministically: with before and after
\* both given the result is that of the call with before alone; with after alone it
\* ends in an AFTER clause for that value; with neither it has no BEFORE or AFTER
\* clause; the statement always adds the value IF NOT EXISTS.
C7_EnumValuePosition ==
  IsAddValue =>
    /\ result.kind = "sql"
    /\ Count(result.sql, <<" ADD VALUE IF NOT EXISTS ">> \o escapeString(call.value)) = 1
    /\ (Given("before") /\ Given("after")) =>
         /\ result.sql = PgAddValueToEnumQuery(call.schema, call.dataTypeOrName, call.value,
                                               Without(call.options, "after")).sql
         /\ EndsWith(result.sql, <<" BEFORE ">> \o escapeString(call.options.opts["before"]))
         /\ Count(result.sql, <<" AFTER ">>) = 0
    /\ (Given("after") /\ ~ Given("before")) =>
         /\ EndsWith(result.sql, <<" AFTER ">> \o escapeString(call.options.opts["after"]))
         /\ Count(result.sql, <<" BEFORE ">>) = 0
    /\ (~ Given("after") /\ ~ Given("before")) =>
         /\ Count(result.sql, <<" BEFORE ">>) = 0
         /\ Count(result.sql, <<" AFTER ">>) = 0
         /\ EndsWith(result.sql, <<" ADD VALUE IF NOT EXISTS ">> \o escapeString(call.value))

C7_Witness ==
  /\ IsAddValue
  /\ Given("before") /\ Given("after")
  /\ call.options.opts["before"] # call.options.opts["after"]
  /\ EndsWith(result.sql, <<" BEFORE ">> \o escapeString(call.options.opts["before"]))

----------------------------------------------------------------------------
(* jsonPathExtractionQuery *)

IsJsonPath == call.op = "jsonPathExtractionQuery"

JsonPathExtractionQuery(dialect, sqlExpression, path, unquote) ==
  IF dialect = Postgres
    THEN PgJsonPathExtractionQuery(sqlExpression, path, unquote)
    ELSE MariaDbJsonPathExtractionQuery(sqlExpression, path, unquote)

\* the results of the call's expression and path with unquote set and not set; the
\* one of the call's own flag is the result of the call
UnquotedResult ==
  IF call.unquote THEN result.sql
  ELSE JsonPathExtractionQuery(call.dialect, call.sqlExpression, call.path, TRUE).sql

PlainResult ==
  IF call.unquote
    THEN JsonPathExtractionQuery(call.dialect, call.sqlExpression, call.path, FALSE).sql
    ELSE result.sql

\* sql without its unquote: the operator after the expression loses its second >,
\* the json_unquote( ) wrapper is taken off
RemoveUnquote(dialect, sqlExpression, sql) ==
  IF dialect = Postgres
    THEN [i \in 1..Len(sql) |->
            IF i = Len(sqlExpression) + 1
              THEN (CASE sql[i] = "->>" -> "->" [] sql[i] = "#>>" -> "#>" [] OTHER -> sql[i])
              ELSE sql[i]]
    ELSE IF Len(sql) >= 2 /\ sql[1] = "json_unquote(" /\ sql[Len(sql)] = ")"
           THEN SubSeq(sql, 2, Len(sql) - 1)
           ELSE sql

\* C8 as stated: in both dialects the result with unquote differs from the result
\* without it only by the unquote wrapper or operator: taking the unquote off the
\* first gives exactly the second.
C8_Original_UnquoteOnlyAddsWrapper ==
  IsJsonPath =>
    /\ UnquotedResult # PlainResult
    /\ RemoveUnquote(call.dialect, call.sqlExpression, UnquotedResult) = PlainResult

\* the json_extract call both MariaDB results wrap
ExtractCall(sql) == SubSeq(sql, 2, Len(sql) - 1)

\* C8, amended: in Postgres taking the unquote operator off the unquote result gives
\* exactly the plain result.  In MariaDB both results wrap the same json_extract call
\* of the expression: json_unquote( ) with unquote, json_compact( ) without, so that
\* taking the unquote wrapper off gives the bare json_extract call.
C8_UnquoteChangesOperatorOrWrapper ==
  IsJsonPath =>
    /\ UnquotedResult # PlainResult
    /\ call.dialect = Postgres =>
         RemoveUnquote(Postgres, call.sqlExpression, UnquotedResult) = PlainResult
    /\ call.dialect = MariaDb =>
         /\ UnquotedResult[1] = "json_unquote(" /\ UnquotedResult[Len(UnquotedResult)] = ")"
         /\ PlainResult[1] = "json_compact(" /\ PlainResult[Len(PlainResult)] = ")"
         /\ ExtractCall(UnquotedResult) = ExtractCall(PlainResult)
         /\ RemoveUnquote(MariaDb, call.sqlExpression, UnquotedResult) = ExtractCall(PlainResult)
         /\ SubSeq(ExtractCall(PlainResult), 1, Len(call.sqlExpression) + 2)
              = <<"json_extract(">> \o call.sqlExpression \o <<",">>

C8_Witness ==
  /\ IsJsonPath
  /\ call.dialect = MariaDb
  /\ call.path = <<Num(0)>>
  /\ ~ call.unquote
  /\ result.sql[1] = "json_compact("

\* the text after the expression and the operator
PathSql == SubSeq(result.sql, Len(call.sqlExpression) + 2, Len(result.sql))

\* text is segment written as a string
IsStringOf(text, segment) ==
  IF segment.type = "number" THEN ParseNumber(text) = segment.n ELSE text = segment.s

\* C9: Postgres jsonPathExtractionQuery returns the unchanged expression, then the
\* operator, then the path.  A path of one segment takes -> (->> with unquote) and the
\* segment escaped in its own type, a number as a number and a string as a string;
\* a path of any other length, the empty one too, takes #> (#>> with unquote) and an
\* array in which every segment, a number too, is a string.
C9_OperatorByPathLength ==
  (IsJsonPath /\ call.dialect = Postgres) =>
    LET n == Len(call.sqlExpression)
        read == ReadSql(PathSql)
    IN /\ result.kind = "sql"
       /\ Len(result.sql) >= n + 2
       /\ SubSeq(result.sql, 1, n) = call.sqlExpression
       /\ result.sql[n + 1] =
            (IF Len(call.path) = 1
               THEN (IF call.unquote THEN "->>" ELSE "->")
               ELSE (IF call.unquote THEN "#>>" ELSE "#>"))
       /\ read.ok
       /\ (Len(call.path) = 1 /\ call.path[1].type = "number") =>
            /\ read.values = <<>>
            /\ ParseNumber(PathSql) = call.path[1].n
       /\ (Len(call.path) = 1 /\ call.path[1].type = "string") =>
            /\ read.values = <<call.path[1].s>>
            /\ read.residue = <<>>
       /\ Len(call.path) # 1 =>
            /\ Len(read.values) = Len(call.path)
            /\ \A i \in 1..Len(call.path) : IsStringOf(read.values[i], call.path[i])
            /\ read.residue
                 = <<"ARRAY[">> \o [i \in 1..(IF call.path = <<>> THEN 0 ELSE Len(call.path) - 1) |-> ","]
                     \o <<"]">>

C9_Witness ==
  /\ IsJsonPath /\ call.dialect = Postgres
  /\ call.path = <<Str(<<"k", "'", "\"">>), Num(12)>>
  /\ call.unquote
  /\ result.sql[Len(call.sqlExpression) + 1] = "#>>"

----------------------------------------------------------------------------
(* describeTableQuery, showIndexesQuery, showConstraintsQuery *)

IsIntrospection ==
  call.op \in {"describeTableQuery", "showIndexesQuery", "showConstraintsQuery"}

\* the constraint-name filter of the call, if it has one
ConstraintFilter ==
  IF call.op = "showConstraintsQuery" /\ "constraintName" \in Keys(call.options)
    THEN {call.options.opts["constraintName"]}
    ELSE {}

\* how often text x stands in sql as a string literal or as a quoted identifier
CountEscaped(sql, dialect, x) ==
  Count(sql, escapeString(x)) + Count(sql, quoteIdentifier(dialect, x))

\* the chunks user-supplied names are made of
UserChunks ==
  UNION { Range(x) : x \in TableNames \cup Schemas \cup ConstraintNames }

----------------------------------------------------------------------------
(* removeIndexQuery: a column list and the index name derived from it      *)

\* removeIndexQuery of the dialect
RemoveIndexQuery(dialect, tableName, indexNameOrAttributes, options) ==
  IF dialect = Postgres
    THEN PgRemoveIndexQuery(tableName, indexNameOrAttributes, options)
    ELSE MariaDbRemoveIndexQuery(tableName, indexNameOrAttributes, options)

\* options removeIndexQuery of the dialect accepts: supported keys only, and in
\* Postgres not cascade together with concurrently
ValidRemoveIndexOptions(dialect, options) ==
  /\ Keys(options) \subseteq SupportedOptions(dialect, "removeIndexQuery")
  /\ ~ (IsTrue(options, "cascade") /\ IsTrue(options, "concurrently"))

\* the call is removeIndexQuery given a column list and valid options
IsRemoveIndexByColumns ==
  /\ call.op = "removeIndexQuery"
  /\ call.indexNameOrAttributes.isArray
  /\ ValidRemoveIndexOptions(call.dialect, call.options)

\* the index name computed beforehand for the column list of the call
PrecomputedIndexName ==
  generateIndexName(extractTableDetails(call.dialect, call.tableName),
                    call.indexNameOrAttributes.fields)

\* C11: in both dialects, for every table reference, column list and valid options,
\* removeIndexQuery given the column list returns SQL, and exactly the SQL that
\* removeIndexQuery returns given the index name generateIndexName computes for the
\* resolved table and that column list.
C11_ColumnListSameAsPrecomputedName ==
  IsRemoveIndexByColumns =>
    LET byName == RemoveIndexQuery(call.dialect, call.tableName,
                                   IndexName(PrecomputedIndexName), call.options)
    IN /\ result.kind = "sql"
       /\ byName.kind = "sql"
       /\ result.sql = byName.sql
       /\ Count(result.sql, quoteIdentifier(call.dialect, PrecomputedIndexName)) = 1

C11_Witness ==
  /\ IsRemoveIndexByColumns
  /\ call.dialect = MariaDb
  /\ call.tableName = TableWithSchema(<<"o", "'", "\"", "k">>, <<"s", "'">>)
  /\ call.indexNameOrAttributes.fields = << <<"c", "\"">>, <<"a">> >>
  /\ IsTrue(call.options, "ifExists")
  /\ result.kind = "sql"
  /\ PrecomputedIndexName = <<"o", "'", "\"", "k", "_", "c", "\"", "_", "a">>

----------------------------------------------------------------------------
(* createEnumQuery: a data type that is not an enum                        *)

\* an error of the type-mismatch kind, thrown with no SQL returned
IsTypeMismatchError(r) == r.kind = "throw" /\ r.error = "TypeError" /\ r.sql = <<>>

\* the call is createEnumQuery given a data type that is not an enum
IsCreateEnumOfNonEnum ==
  call.op = "createEnumQuery" /\ call.dataType.kind # "ENUM"

\* the columns of a changeColumnsQuery call that createEnumQuery is called for
\* (line 258), in the order of the mapping
EnumBranchColumns ==
  { i \in DOMAIN call.columnDefinitions :
      LET type == call.columnDefinitions[i].attribute.type
      IN type.kind = "ENUM" \/ (type.kind = "ARRAY" /\ type.of = "ENUM") }

\* changeColumnsQuery hands createEnumQuery a data type that is not an enum
ReachesCreateEnumWithNonEnum ==
  /\ IsChangeColumns
  /\ \E i \in EnumBranchColumns : call.columnDefinitions[i].attribute.type.kind # "ENUM"

\* C12: Postgres createEnumQuery given a data type that is not an enum throws a
\* type-mismatch error and returns no SQL, whatever the table reference and the options
\* are, before it resolves the table or builds any text (it has made no call); when
\* changeColumnsQuery hands it such a type, changeColumnsQuery fails with that error,
\* returns no SQL, and createEnumQuery has done nothing after being entered.
C12_NonEnumRejected ==
  /\ IsCreateEnumOfNonEnum
       => /\ IsTypeMismatchError(result)
          /\ result.steps = <<>>
  /\ ReachesCreateEnumWithNonEnum
       => /\ IsTypeMismatchError(result)
          /\ result.steps # <<>>
          /\ result.steps[Len(result.steps)] = "createEnumQuery"

C12_Witness ==
  /\ IsCreateEnumOfNonEnum
  /\ call.dataType = ArrayOfIntegerType
  /\ call.tableName = TableWithSchema(<<"o", "'", "\"", "k">>, <<"s", "'">>)
  /\ IsTrue(call.options, "force")
  /\ IsTypeMismatchError(result)

\* changeColumnsQuery reaches createEnumQuery with a type that is not an enum, after
\* an enum column before it in the mapping
C12_ThroughChangeColumns ==
  /\ ReachesCreateEnumWithNonEnum
  /\ Len(call.columnDefinitions) = 2
  /\ call.columnDefinitions[1].attribute.type.kind = "ENUM"
  /\ call.columnDefinitions[2].attribute.type.kind = "ARRAY"
  /\ IsTypeMismatchError(result)

----------------------------------------------------------------------------
(* listEnumsQuery: the aliases of the query and its restrictions           *)

IsListEnums == call.op = "listEnumsQuery"

\* the text of a query outside its string literals
Outside(sql) == ReadSql(sql).residue

\* the aliases the FROM and JOIN clauses declare: the word after the table name,
\* which may be qualified by a schema
DeclaredAliases(text) ==
  { text[IF text[i + 2] = "." THEN i + 5 ELSE i + 3] :
      i \in { j \in 1..(Len(text) - 5) : text[j] \in {"FROM ", "JOIN "} } }

\* the aliases that qualify a column: the word before a dot, the schema of a
\* qualified table name left aside
ReferencedAliases(text) ==
  { text[i] : i \in { j \in 1..(Len(text) - 1) :
                        /\ text[j + 1] = "."
                        /\ ~ (j > 1 /\ text[j - 1] \in {"FROM ", "JOIN "}) } }

\* the schema the query is to be restricted to
ExpectedSchema ==
  IF IsNonEmpty(call.options, "schema") THEN call.options.opts["schema"]
  ELSE IF call.generatorSchema # <<>> THEN call.generatorSchema
  ELSE <<"public">>

EnumNameGiven == "dataTypeOrName" \in Keys(call.options)

\* the query compares nspname to one literal, the expected schema, and compares
\* typname to one literal, the name given, exactly when a name is given
RestrictedBySchemaAndName(sql) ==
  LET read == ReadSql(sql)
  IN /\ read.ok
     /\ Count(sql, <<"WHERE ">>) = 1
     /\ Count(sql, <<"nspname", " = ", "'">>) = 1
     /\ Len(read.values) >= 1
     /\ read.values[1] = ExpectedSchema
     /\ Count(sql, <<"typname", "=", "'">>) = (IF EnumNameGiven THEN 1 ELSE 0)
     /\ Len(read.values) = (IF EnumNameGiven THEN 2 ELSE 1)
     /\ EnumNameGiven => read.values[2] = NameOf(call.options.opts["dataTypeOrName"])

\* C13: Postgres listEnumsQuery returns a query in which every alias that qualifies a
\* column (t, e, n) is declared by the FROM or JOIN clauses, which is restricted to one
\* schema (options.schema, else the generator's schema, else the default schema) and
\* is restricted to one enum type name exactly when dataTypeOrName is given.
C13_ListEnumsWellFormed ==
  IsListEnums =>
    /\ result.kind = "sql"
    /\ ReferencedAliases(Outside(result.sql)) = {"t", "e", "n"}
    /\ ReferencedAliases(Outside(result.sql)) \subseteq DeclaredAliases(Outside(result.sql))
    /\ RestrictedBySchemaAndName(result.sql)

\* the query is restricted by schema and by name as said, and refers to t, e and n
ListEnumsRestrictions ==
  IsListEnums =>
    /\ result.kind = "sql"
    /\ ReferencedAliases(Outside(result.sql)) = {"t", "e", "n"}
    /\ RestrictedBySchemaAndName(result.sql)

\* the FROM and JOIN clauses declare t, name and schema: e and n are not declared
ListEnumsDeclaresOtherAliases ==
  IsListEnums => DeclaredAliases(Outside(result.sql)) = {"t", "name", "schema"}

====
